---- MODULE Spec2Model ----
(***************************************************************************)
(* Adaptive Simpson quadrature under three OpenMP execution strategies:    *)
(*   A  src/src/solver1.c           recursive tasks + taskwait            *)
(*   B  src/src/solver2_shared.c    one shared LIFO queue, one lock        *)
(*   C  src/src/solver2_separate.c  one queue per thread, work stealing    *)
(*                                                                         *)
(* Numbers.  The source computes in double; the model computes the same   *)
(* expressions exactly over an integer grid.  Abscissae are integers, the  *)
(* root interval is [0, WholeRight] with WholeRight a power of two large   *)
(* enough that every midpoint and quarter point the code computes is an    *)
(* integer.  Areas (q1, q2, quad, tol) are expressed in units of 1/180, so *)
(* that h/6, h/12 and the division by 15 are exact.                        *)
(***************************************************************************)
EXTENDS Integers, Sequences, FiniteSets, Bags, TLC

(* ------------------------------ bounds --------------------------------- *)

\* largest thread count explored (omp_get_max_threads())
MaxThreads == 2

\* number of halvings after which an interval is narrower than EPS
Levels == 2

\* capacity of a queue: the source has 10000, the model a capacity that the
\* explored split trees can fill
MAXQUEUE == 2

\* the number of threads of the runs that check the steal scan
ScanThreads == 3

\* the width floor 1.0e-12 of the accept test, in grid units
EPS == 8

(* ------------------------------ inputs --------------------------------- *)

RECURSIVE Pow2(_)
Pow2(n) == IF n = 0 THEN 1 ELSE 2 * Pow2(n - 1)

WholeRight == EPS * Pow2(Levels - 1)

Abs(x) == IF x < 0 THEN -x ELSE x

\* function.h is not part of the sources: the integrand is an input, drawn
\* from two kinked functions, one with its kink a quarter and one three
\* quarters into the whole interval: the split tree follows the kink, to the
\* left for one and to the right for the other, and stops where the halves
\* are linear (Simpson's rule is exact there)
Funcs == {"left", "right"}

func(fn, x) ==
    IF fn = "left" THEN Abs(x - WholeRight \div 4)
    ELSE Abs(x - 3 * (WholeRight \div 4))

\* tolerances (in units of 1/180): one that splits wherever the estimates
\* differ, and one that accepts the whole interval at once
Tols == {1, 100000}

\* tolerances of the runs checked for termination: one between the error of
\* the whole interval and that of its kinked half, which splits the whole
\* interval once, and one that accepts it at once
FairTols == {5 * WholeRight * WholeRight, 100000}

Strategies == {"A", "B", "C"}

(* ------------------------------ Interval ------------------------------- *)

Interval(l, r, t, fl, fm, fr) ==
    [left |-> l, right |-> r, tol |-> t, f_left |-> fl, f_mid |-> fm, f_right |-> fr]

\* content of an Interval variable or array slot that was never assigned
Unset == Interval(0, 0, 0, 0, 0, 0)

\* main: the initial interval
whole(fn, t) ==
    Interval(0, WholeRight, t, func(fn, 0), func(fn, (0 + WholeRight) \div 2), func(fn, WholeRight))

(* ------------------------- quadrature kernel --------------------------- *)

h(iv) == iv.right - iv.left
c(iv) == (iv.left + iv.right) \div 2
d(iv) == (iv.left + c(iv)) \div 2
e(iv) == (c(iv) + iv.right) \div 2
fd(fn, iv) == func(fn, d(iv))
fe(fn, iv) == func(fn, e(iv))

\* h / 6.0 * (...) in units of 1/180
q1(iv) == h(iv) * 30 * (iv.f_left + 4 * iv.f_mid + iv.f_right)

\* h / 12.0 * (...) in units of 1/180
q2(fn, iv) ==
    h(iv) * 15 * (iv.f_left + 4 * fd(fn, iv) + 2 * iv.f_mid + 4 * fe(fn, iv) + iv.f_right)

ToleranceMet(fn, iv) ==
    (Abs(q2(fn, iv) - q1(iv)) < iv.tol) \/ ((iv.right - iv.left) < EPS)

\* q2 + (q2 - q1) / 15.0 ; q2 - q1 is a multiple of 15 in these units
Estimate(fn, iv) == q2(fn, iv) + (q2(fn, iv) - q1(iv)) \div 15

\* variant: the first half caches the three-quarter point value as its midpoint
i1_fe(fn, iv) == Interval(iv.left, c(iv), iv.tol, iv.f_left, fe(fn, iv), iv.f_mid)

i1(fn, iv) == Interval(iv.left, c(iv), iv.tol, iv.f_left, fd(fn, iv), iv.f_mid)
i2(fn, iv) == Interval(c(iv), iv.right, iv.tol, iv.f_mid, fe(fn, iv), iv.f_right)

(* ------------------------------- Queue --------------------------------- *)

NoThread == -1

Slots == 0 .. (MAXQUEUE - 1)

\* A slot above top is never read by any function of the queue (dequeue reads
\* entry[top], enqueue overwrites entry[top + 1]): the model keeps every such
\* slot at Unset, whatever the array still holds there.

\* initialize(): top = -1, lock initialised (unlocked)
initialize == [entry |-> [s \in Slots |-> Unset], top |-> -1, lock |-> NoThread]

isempty(q) == q.top = -1

size(q) == q.top + 1

\* variant: the capacity test is missing
EnqueueFull_nocheck(q) == FALSE

\* variant: the capacity test is off by one
EnqueueFull_offbyone(q) == q.top = MAXQUEUE

\* enqueue() exits when the queue is full
EnqueueFull(q) == q.top = MAXQUEUE - 1

\* enqueue() otherwise: top++ ; entry[top] = interval
enqueue(iv, q) == [q EXCEPT !.top = q.top + 1, !.entry[q.top + 1] = iv]

\* dequeue() exits when the queue is empty
DequeueEmpty(q) == q.top = -1

\* variant: top is not decremented
dequeue_keep(q) == q

\* dequeue() otherwise: interval = entry[top] ; top--
dequeueValue(q) == q.entry[q.top]
dequeue(q) == [q EXCEPT !.top = q.top - 1, !.entry[q.top] = Unset]

(* ------------------------------- state --------------------------------- *)

VARIABLES
    strategy,        \* which of the three programs runs
    queues_size,     \* thread count = number of threads of the parallel region
    fn,              \* the integrand passed as func
    tol,             \* whole.tol
    queues,          \* B: the queue of main (index 0); C: queues[0 .. queues_size-1]
    active_threads,  \* shared counter of simpson
    pc,              \* per thread: position in the loop of simpson
    interval,        \* per thread: struct Interval interval
    work,            \* per thread: work (B) / thread_has_work (C)
    done,            \* per thread: done (B) / terminate (C)
    attempt,         \* per thread: loop counter of the steal scan (C)
    quad,            \* per thread: private copy of the reduction variable quad
    tasks,           \* A: one record per call of simpson (per task)
    cur,             \* A: the task a thread is executing, 0 when none
    aborted,         \* "no", or which exit(1) ended the process
    result,          \* value returned by simpson to main, once returned
    returned,        \* simpson has returned to main
    pushed,          \* history: bag of intervals ever enqueued
    popped,          \* history: bag of intervals ever dequeued
    held,            \* history, per thread: its increments of active_threads
                     \* minus its decrements
    processed        \* history, per thread: the interval it dequeued last was
                     \* added to quad, or both its halves were enqueued

vars == <<strategy, queues_size, fn, tol, queues, active_threads, pc, interval, work,
          done, attempt, quad, tasks, cur, aborted, result, returned, pushed, popped,
          held, processed>>

inputs == <<strategy, queues_size, fn, tol>>

Threads == 0 .. (queues_size - 1)

\* tasks of solver1 are named by their place in the call tree: the root call
\* is 1, the calls spawned by call k are 2k (i1) and 2k+1 (i2)
TaskIds == 1 .. (Pow2(Levels + 1) - 1)

NoTask == 0

Running == aborted = "no" /\ ~returned

Goto(t, label) == pc' = [pc EXCEPT ![t] = label]

\* top of the while (1) loop: the flags are declared and cleared again
LoopTop(t) ==
    /\ Goto(t, "lock")
    /\ work' = [work EXCEPT ![t] = FALSE]
    /\ done' = [done EXCEPT ![t] = FALSE]

(* ------------------------------- Init ---------------------------------- *)

\* solver2_shared main: initialize(&queue); enqueue(whole, &queue)
\* solver2_separate main: initialize every queue; enqueue(whole, &queues[0])
InitQueues(s, n, f, t) ==
    IF s = "A" THEN <<>>
    ELSE [i \in 0 .. ((IF s = "B" THEN 1 ELSE n) - 1) |->
             IF i = 0 THEN enqueue(whole(f, t), initialize) ELSE initialize]

NoCall == [state |-> "none", interval |-> Unset, quad1 |-> 0, quad2 |-> 0]

\* solver1 main: the single construct calls simpson(func1, whole)
InitTasks(s, f, t) ==
    IF s = "A"
    THEN [k \in TaskIds |-> IF k = 1 THEN [NoCall EXCEPT !.state = "ready", !.interval = whole(f, t)]
                                     ELSE NoCall]
    ELSE <<>>

\* the state when the parallel region of simpson starts: the program drawn
\* from S, the thread count from 1 .. n, tol from T
Begin(S, n, T) ==
    /\ strategy \in S
    /\ queues_size \in 1 .. n
    /\ fn \in Funcs
    /\ tol \in T
    /\ queues = InitQueues(strategy, queues_size, fn, tol)
    /\ active_threads = 0
    /\ pc = [t \in Threads |-> IF strategy = "A" THEN "idle" ELSE "lock"]
    /\ interval = [t \in Threads |-> Unset]
    /\ work = [t \in Threads |-> FALSE]
    /\ done = [t \in Threads |-> FALSE]
    /\ attempt = [t \in Threads |-> 0]
    /\ quad = [t \in Threads |-> 0]
    /\ tasks = InitTasks(strategy, fn, tol)
    /\ cur = [t \in Threads |-> NoTask]
    /\ aborted = "no"
    /\ result = 0
    /\ returned = FALSE
    /\ pushed = IF strategy = "A" THEN EmptyBag ELSE SetToBag({whole(fn, tol)})
    /\ popped = EmptyBag
    /\ held = [t \in Threads |-> 0]
    /\ processed = [t \in Threads |-> FALSE]

Start(T) == Begin(Strategies, MaxThreads, T)

Init == Start(Tols)

(* ------------------- Strategy B: solver2_shared.c ---------------------- *)

\* the queue all threads share
Shared == 0

\* line 109: omp_set_lock(&queue_p->lock)
B_SetLock(t) ==
    /\ Running /\ strategy = "B" /\ pc[t] = "lock"
    /\ queues[Shared].lock = NoThread
    /\ queues' = [queues EXCEPT ![Shared].lock = t]
    /\ Goto(t, "check")
    /\ UNCHANGED <<inputs, held, processed, active_threads, interval, work, done, attempt, quad, tasks, cur,
                   aborted, result, returned, pushed, popped>>

\* variant: a thread that finds the queue empty releases the lock before it
\* computes done
B_IsEmpty_release(t) ==
    /\ Running /\ strategy = "B" /\ pc[t] = "check"
    /\ IF ~isempty(queues[Shared])
       THEN Goto(t, "deq") /\ UNCHANGED queues
       ELSE Goto(t, "done") /\ queues' = [queues EXCEPT ![Shared].lock = NoThread]
    /\ UNCHANGED <<inputs, held, processed, active_threads, interval, work, done, attempt, quad, tasks,
                   cur, aborted, result, returned, pushed, popped>>

\* line 111: if (!isempty(queue_p))
B_IsEmpty(t) ==
    /\ Running /\ strategy = "B" /\ pc[t] = "check"
    /\ Goto(t, IF ~isempty(queues[Shared]) THEN "deq" ELSE "done")
    /\ UNCHANGED <<inputs, held, processed, queues, active_threads, interval, work, done, attempt, quad, tasks,
                   cur, aborted, result, returned, pushed, popped>>

\* lines 112-113: interval = dequeue(queue_p); work = true
B_Dequeue(t) ==
    /\ Running /\ strategy = "B" /\ pc[t] = "deq"
    /\ IF DequeueEmpty(queues[Shared])
       THEN /\ aborted' = "empty"
            /\ UNCHANGED <<queues, pc, interval, work, popped>>
       ELSE /\ interval' = [interval EXCEPT ![t] = dequeueValue(queues[Shared])]
            /\ queues' = [queues EXCEPT ![Shared] = dequeue(queues[Shared])]
            /\ work' = [work EXCEPT ![t] = TRUE]
            /\ popped' = popped (+) SetToBag({dequeueValue(queues[Shared])})
            /\ Goto(t, "inc")
            /\ UNCHANGED aborted
    /\ UNCHANGED <<inputs, held, processed, active_threads, done, attempt, quad, tasks, cur, result, returned,
                   pushed>>

\* lines 117-118: #pragma omp atomic  active_threads++
B_Increment(t) ==
    /\ Running /\ strategy = "B" /\ pc[t] = "inc"
    /\ active_threads' = active_threads + 1
    /\ held' = [held EXCEPT ![t] = held[t] + 1]
    /\ Goto(t, "done")
    /\ UNCHANGED <<inputs, processed, queues, interval, work, done, attempt, quad, tasks, cur, aborted,
                   result, returned, pushed, popped>>

\* line 120, left operand of &&: isempty(queue_p)
B_DoneEmpty(t) ==
    /\ Running /\ strategy = "B" /\ pc[t] = "done"
    /\ done' = [done EXCEPT ![t] = isempty(queues[Shared])]
    /\ Goto(t, IF isempty(queues[Shared]) THEN "done2" ELSE "unlock")
    /\ UNCHANGED <<inputs, held, processed, queues, active_threads, interval, work, attempt, quad, tasks, cur,
                   aborted, result, returned, pushed, popped>>

\* variant: termination on the empty queue alone
B_DoneValue_emptyonly(empty, active) == empty

\* line 120: the value assigned to done, from the two operands of &&
B_DoneValue(empty, active) == empty /\ active = 0

\* line 120, right operand of &&: active_threads == 0, and the assignment to done
B_DoneActive(t) ==
    /\ Running /\ strategy = "B" /\ pc[t] = "done2"
    /\ done' = [done EXCEPT ![t] = B_DoneValue(done[t], active_threads)]
    /\ Goto(t, "unlock")
    /\ UNCHANGED <<inputs, held, processed, queues, active_threads, interval, work, attempt, quad, tasks, cur,
                   aborted, result, returned, pushed, popped>>

\* variant: the continue of a thread without work is missing
AfterSection_nocontinue(isdone, haswork) == IF isdone THEN "exited" ELSE "eval"

\* lines 127-131: where the loop goes after the critical section
AfterSection(isdone, haswork) ==
    IF isdone THEN "exited" ELSE IF ~haswork THEN "lock" ELSE "eval"

\* lines 122-131: omp_unset_lock(&queue_p->lock); if (done) break;
\* if (!work) continue;  (the two tests read only variables of the thread)
B_UnsetLock(t) ==
    /\ Running /\ strategy = "B" /\ pc[t] = "unlock"
    /\ queues' = [queues EXCEPT ![Shared].lock = NoThread]
    /\ IF AfterSection(done[t], work[t]) = "lock"
       THEN LoopTop(t)
       ELSE Goto(t, AfterSection(done[t], work[t])) /\ UNCHANGED <<work, done>>
    /\ UNCHANGED <<inputs, held, processed, active_threads, interval, attempt, quad, tasks, cur,
                   aborted, result, returned, pushed, popped>>

\* variant: the accepting branch starts the next iteration at once
B_Evaluate_skipdec(t) ==
    /\ Running /\ strategy = "B" /\ pc[t] = "eval"
    /\ IF ToleranceMet(fn, interval[t])
       THEN /\ quad' = [quad EXCEPT ![t] = quad[t] + Estimate(fn, interval[t])]
            /\ processed' = [processed EXCEPT ![t] = TRUE]
            /\ LoopTop(t)
       ELSE /\ Goto(t, "lock2")
            /\ UNCHANGED <<quad, processed, work, done>>
    /\ UNCHANGED <<inputs, held, queues, active_threads, interval, attempt, tasks, cur,
                   aborted, result, returned, pushed, popped>>

\* lines 133-164: evaluate the interval; accumulate it, or build i1 and i2
B_Evaluate(t) ==
    /\ Running /\ strategy = "B" /\ pc[t] = "eval"
    /\ IF ToleranceMet(fn, interval[t])
       THEN /\ quad' = [quad EXCEPT ![t] = quad[t] + Estimate(fn, interval[t])]
            /\ processed' = [processed EXCEPT ![t] = TRUE]
            /\ Goto(t, "dec")
       ELSE /\ Goto(t, "lock2")
            /\ UNCHANGED <<quad, processed>>
    /\ UNCHANGED <<inputs, held, queues, active_threads, interval, work, done, attempt, tasks, cur,
                   aborted, result, returned, pushed, popped>>

\* line 168: omp_set_lock(&queue_p->lock)
B_SetLock2(t) ==
    /\ Running /\ strategy = "B" /\ pc[t] = "lock2"
    /\ queues[Shared].lock = NoThread
    /\ queues' = [queues EXCEPT ![Shared].lock = t]
    /\ Goto(t, "enq1")
    /\ UNCHANGED <<inputs, held, processed, active_threads, interval, work, done, attempt, quad, tasks, cur,
                   aborted, result, returned, pushed, popped>>

\* a call enqueue(iv, &queues[qi]) made by thread t, continuing at label next
EnqueueCall(t, iv, qi, next) ==
    IF EnqueueFull(queues[qi])
    THEN /\ aborted' = "full"
         /\ UNCHANGED <<queues, pc, pushed>>
    ELSE /\ queues' = [queues EXCEPT ![qi] = enqueue(iv, queues[qi])]
         /\ pushed' = pushed (+) SetToBag({iv})
         /\ Goto(t, next)
         /\ UNCHANGED aborted

\* variant: the lock is released after the first half and not taken again
B_Enqueue1_release(t) ==
    /\ Running /\ strategy = "B" /\ pc[t] = "enq1"
    /\ IF EnqueueFull(queues[Shared])
       THEN /\ aborted' = "full"
            /\ UNCHANGED <<queues, pc, pushed>>
       ELSE /\ queues' = [queues EXCEPT ![Shared] =
                             [enqueue(i1(fn, interval[t]), queues[Shared]) EXCEPT !.lock = NoThread]]
            /\ pushed' = pushed (+) SetToBag({i1(fn, interval[t])})
            /\ Goto(t, "enq2")
            /\ UNCHANGED aborted
    /\ UNCHANGED <<inputs, held, processed, active_threads, interval, work, done, attempt, quad, tasks, cur,
                   result, returned, popped>>

\* line 169: enqueue(i1, queue_p)
B_Enqueue1(t) ==
    /\ Running /\ strategy = "B" /\ pc[t] = "enq1"
    /\ EnqueueCall(t, i1(fn, interval[t]), Shared, "enq2")
    /\ UNCHANGED <<inputs, held, processed, active_threads, interval, work, done, attempt, quad, tasks, cur,
                   result, returned, popped>>

\* line 170: enqueue(i2, queue_p)
B_Enqueue2(t) ==
    /\ Running /\ strategy = "B" /\ pc[t] = "enq2"
    /\ EnqueueCall(t, i2(fn, interval[t]), Shared, "unlock2")
    /\ processed' = [processed EXCEPT ![t] = ~EnqueueFull(queues[Shared])]
    /\ UNCHANGED <<inputs, held, active_threads, interval, work, done, attempt, quad, tasks, cur,
                   result, returned, popped>>

\* line 171: omp_unset_lock(&queue_p->lock)
B_UnsetLock2(t) ==
    /\ Running /\ strategy = "B" /\ pc[t] = "unlock2"
    /\ queues' = [queues EXCEPT ![Shared].lock = NoThread]
    /\ Goto(t, "dec")
    /\ UNCHANGED <<inputs, held, processed, active_threads, interval, work, done, attempt, quad, tasks, cur,
                   aborted, result, returned, pushed, popped>>

\* variant: the decrement is missing
B_Decrement_missing(t) ==
    /\ Running /\ strategy = "B" /\ pc[t] = "dec"
    /\ LoopTop(t)
    /\ UNCHANGED <<inputs, queues, active_threads, held, processed, interval, attempt, quad,
                   tasks, cur, aborted, result, returned, pushed, popped>>

\* lines 176-177: #pragma omp atomic  active_threads-- ; then the next iteration.
\* interval is not read again before the next dequeue assigns it: the model
\* clears it, whatever the variable still holds
B_Decrement(t) ==
    /\ Running /\ strategy = "B" /\ pc[t] = "dec"
    /\ active_threads' = active_threads - 1
    /\ held' = [held EXCEPT ![t] = held[t] - 1]
    /\ processed' = [processed EXCEPT ![t] = FALSE]
    /\ LoopTop(t)
    /\ interval' = [interval EXCEPT ![t] = Unset]
    /\ UNCHANGED <<inputs, queues, attempt, quad, tasks, cur, aborted, result,
                   returned, pushed, popped>>


(* ------------------ Strategy C: solver2_separate.c --------------------- *)

\* line 109: local_queue = &queues[thread_id]
local_queue(t) == t

\* variant: the scan goes round the other way
other_thread_id_back(t, a, n) == (t + n - a) % n

\* line 138: other_thread_id = (thread_id + attempt) % queues_size
other_thread_id(t, a, n) == (t + a) % n

\* top of the while (1) loop: interval and thread_has_work are declared anew
C_LoopTop(t) ==
    /\ LoopTop(t)
    /\ interval' = [interval EXCEPT ![t] = Unset]

\* line 118: omp_set_lock(&local_queue->lock)
C_SetLock(t) ==
    /\ Running /\ strategy = "C" /\ pc[t] = "lock"
    /\ queues[local_queue(t)].lock = NoThread
    /\ queues' = [queues EXCEPT ![local_queue(t)].lock = t]
    /\ Goto(t, "check")
    /\ UNCHANGED <<inputs, held, processed, active_threads, interval, work, done, attempt, quad, tasks, cur,
                   aborted, result, returned, pushed, popped>>

\* line 120: if (!isempty(local_queue))
C_IsEmpty(t) ==
    /\ Running /\ strategy = "C" /\ pc[t] = "check"
    /\ Goto(t, IF ~isempty(queues[local_queue(t)]) THEN "deq" ELSE "unlock")
    /\ UNCHANGED <<inputs, held, processed, queues, active_threads, interval, work, done, attempt, quad, tasks,
                   cur, aborted, result, returned, pushed, popped>>

\* a call interval = dequeue(&queues[qi]) made by thread t, continuing at next
DequeueCall(t, qi, next) ==
    IF DequeueEmpty(queues[qi])
    THEN /\ aborted' = "empty"
         /\ UNCHANGED <<queues, pc, interval, work, popped>>
    ELSE /\ interval' = [interval EXCEPT ![t] = dequeueValue(queues[qi])]
         /\ queues' = [queues EXCEPT ![qi] = dequeue(queues[qi])]
         /\ work' = [work EXCEPT ![t] = TRUE]
         /\ popped' = popped (+) SetToBag({dequeueValue(queues[qi])})
         /\ Goto(t, next)
         /\ UNCHANGED aborted

\* lines 121-122: interval = dequeue(local_queue); thread_has_work = true
C_Dequeue(t) ==
    /\ Running /\ strategy = "C" /\ pc[t] = "deq"
    /\ DequeueCall(t, local_queue(t), "inc")
    /\ UNCHANGED <<inputs, held, processed, active_threads, done, attempt, quad, tasks, cur, result, returned,
                   pushed>>

\* variant: an interval taken from the thread's own queue is not counted
C_Increment_missing(t) ==
    /\ Running /\ strategy = "C" /\ pc[t] = "inc"
    /\ Goto(t, "unlock")
    /\ UNCHANGED <<inputs, held, processed, queues, active_threads, interval, work, done, attempt, quad,
                   tasks, cur, aborted, result, returned, pushed, popped>>

\* lines 126-127: #pragma omp atomic  active_threads++
C_Increment(t) ==
    /\ Running /\ strategy = "C" /\ pc[t] = "inc"
    /\ active_threads' = active_threads + 1
    /\ held' = [held EXCEPT ![t] = held[t] + 1]
    /\ Goto(t, "unlock")
    /\ UNCHANGED <<inputs, processed, queues, interval, work, done, attempt, quad, tasks, cur, aborted,
                   result, returned, pushed, popped>>

\* lines 136-140: the for loop run from attempt = a up to its next call of
\* omp_test_lock: the value of attempt there, or n when the loop ends first
RECURSIVE ScanFrom(_, _, _)
ScanFrom(t, a, n) ==
    IF ~(a < n) THEN n
    ELSE IF other_thread_id(t, a, n) = t THEN ScanFrom(t, a + 1, n)
    ELSE a

\* thread t continues the for loop at attempt = a; attempt goes out of scope
\* (the model keeps 0) when the loop ends
ScanTo(t, a) ==
    IF ScanFrom(t, a, queues_size) < queues_size
    THEN Goto(t, "steal") /\ attempt' = [attempt EXCEPT ![t] = ScanFrom(t, a, queues_size)]
    ELSE Goto(t, "term") /\ attempt' = [attempt EXCEPT ![t] = 0]

\* variant: a thread that found its queue empty scans without releasing its lock
C_UnsetLock_keep(t) ==
    /\ Running /\ strategy = "C" /\ pc[t] = "unlock"
    /\ IF ~work[t]
       THEN ScanTo(t, 0) /\ UNCHANGED queues
       ELSE /\ Goto(t, "term") /\ UNCHANGED attempt
            /\ queues' = [queues EXCEPT ![local_queue(t)].lock = NoThread]
    /\ UNCHANGED <<inputs, held, processed, active_threads, interval, work, done, quad, tasks, cur,
                   aborted, result, returned, pushed, popped>>

\* lines 130-140: omp_unset_lock(&local_queue->lock); if (!thread_has_work) scan
C_UnsetLock(t) ==
    /\ Running /\ strategy = "C" /\ pc[t] = "unlock"
    /\ queues' = [queues EXCEPT ![local_queue(t)].lock = NoThread]
    /\ IF ~work[t] THEN ScanTo(t, 0) ELSE Goto(t, "term") /\ UNCHANGED attempt
    /\ UNCHANGED <<inputs, held, processed, active_threads, interval, work, done, quad, tasks, cur,
                   aborted, result, returned, pushed, popped>>

\* line 146: if (omp_test_lock(&other_queue->lock)), else the next turn of the loop
C_TestLock(t) ==
    /\ Running /\ strategy = "C" /\ pc[t] = "steal"
    /\ LET other == other_thread_id(t, attempt[t], queues_size) IN
       IF queues[other].lock = NoThread
       THEN /\ queues' = [queues EXCEPT ![other].lock = t]
            /\ Goto(t, "scheck")
            /\ UNCHANGED attempt
       ELSE /\ ScanTo(t, attempt[t] + 1)
            /\ UNCHANGED queues
    /\ UNCHANGED <<inputs, held, processed, active_threads, interval, work, done, quad, tasks, cur, aborted,
                   result, returned, pushed, popped>>

\* the queue the scan of thread t is at
other_queue(t) == other_thread_id(t, attempt[t], queues_size)

\* variant: the victim's queue is not tested before the dequeue
C_StealIsEmpty_notest(t) ==
    /\ Running /\ strategy = "C" /\ pc[t] = "scheck"
    /\ Goto(t, "sdeq")
    /\ UNCHANGED <<inputs, held, processed, queues, active_threads, interval, work, done,
                   attempt, quad, tasks, cur, aborted, result, returned, pushed, popped>>

\* line 147: if (!isempty(other_queue))
C_StealIsEmpty(t) ==
    /\ Running /\ strategy = "C" /\ pc[t] = "scheck"
    /\ Goto(t, IF ~isempty(queues[other_queue(t)]) THEN "sdeq" ELSE "sunlock")
    /\ UNCHANGED <<inputs, held, processed, queues, active_threads, interval, work, done, attempt, quad, tasks,
                   cur, aborted, result, returned, pushed, popped>>

\* lines 148-149: interval = dequeue(other_queue); thread_has_work = true
C_StealDequeue(t) ==
    /\ Running /\ strategy = "C" /\ pc[t] = "sdeq"
    /\ DequeueCall(t, other_queue(t), "sinc")
    /\ UNCHANGED <<inputs, held, processed, active_threads, done, attempt, quad, tasks, cur, result, returned,
                   pushed>>

\* variant: a stolen interval is not counted
C_StealIncrement_missing(t) ==
    /\ Running /\ strategy = "C" /\ pc[t] = "sinc"
    /\ Goto(t, "sunlock")
    /\ UNCHANGED <<inputs, held, processed, queues, active_threads, interval, work, done, attempt, quad,
                   tasks, cur, aborted, result, returned, pushed, popped>>

\* lines 153-154: #pragma omp atomic  active_threads++
C_StealIncrement(t) ==
    /\ Running /\ strategy = "C" /\ pc[t] = "sinc"
    /\ active_threads' = active_threads + 1
    /\ held' = [held EXCEPT ![t] = held[t] + 1]
    /\ Goto(t, "sunlock")
    /\ UNCHANGED <<inputs, processed, queues, interval, work, done, attempt, quad, tasks, cur, aborted,
                   result, returned, pushed, popped>>

\* variant: the victim's lock is released only after a dequeue
C_StealUnsetLock_onlyafterpop(t) ==
    /\ Running /\ strategy = "C" /\ pc[t] = "sunlock"
    /\ IF work[t]
       THEN /\ Goto(t, "term") /\ attempt' = [attempt EXCEPT ![t] = 0]
            /\ queues' = [queues EXCEPT ![other_queue(t)].lock = NoThread]
       ELSE ScanTo(t, attempt[t] + 1) /\ UNCHANGED queues
    /\ UNCHANGED <<inputs, held, processed, active_threads, interval, work, done, quad, tasks, cur,
                   aborted, result, returned, pushed, popped>>

\* lines 156-159: omp_unset_lock(&other_queue->lock); if (thread_has_work) break;
\* else the next turn of the loop
C_StealUnsetLock(t) ==
    /\ Running /\ strategy = "C" /\ pc[t] = "sunlock"
    /\ queues' = [queues EXCEPT ![other_queue(t)].lock = NoThread]
    /\ IF work[t]
       THEN Goto(t, "term") /\ attempt' = [attempt EXCEPT ![t] = 0]
       ELSE ScanTo(t, attempt[t] + 1)
    /\ UNCHANGED <<inputs, held, processed, active_threads, interval, work, done, quad, tasks, cur, aborted,
                   result, returned, pushed, popped>>

\* lines 168-176: terminate is assigned; if (terminate) break;
\* if (!thread_has_work) continue;  (the two tests read only variables of the
\* thread)
C_AfterTerminate(t, terminate) ==
    IF AfterSection(terminate, work[t]) = "lock"
    THEN C_LoopTop(t)
    ELSE /\ Goto(t, AfterSection(terminate, work[t]))
         /\ done' = [done EXCEPT ![t] = terminate]
         /\ UNCHANGED <<work, interval>>

\* line 168, left operand of &&: isempty(local_queue), read without the lock;
\* when it is false terminate is false
C_TerminateEmpty(t) ==
    /\ Running /\ strategy = "C" /\ pc[t] = "term"
    /\ IF isempty(queues[local_queue(t)])
       THEN Goto(t, "term2") /\ UNCHANGED <<done, work, interval>>
       ELSE C_AfterTerminate(t, FALSE)
    /\ UNCHANGED <<inputs, held, processed, queues, active_threads, attempt, quad, tasks, cur,
                   aborted, result, returned, pushed, popped>>

\* line 168, right operand of &&: the value of terminate once the queue was seen empty
C_TerminateValue(active) == active = 0

\* line 168, right operand of &&: active_threads == 0
C_TerminateActive(t) ==
    /\ Running /\ strategy = "C" /\ pc[t] = "term2"
    /\ C_AfterTerminate(t, C_TerminateValue(active_threads))
    /\ UNCHANGED <<inputs, held, processed, queues, active_threads, attempt, quad, tasks, cur,
                   aborted, result, returned, pushed, popped>>

\* lines 178-209: evaluate the interval; accumulate it, or build i1 and i2
C_Evaluate(t) ==
    /\ Running /\ strategy = "C" /\ pc[t] = "eval"
    /\ IF ToleranceMet(fn, interval[t])
       THEN /\ quad' = [quad EXCEPT ![t] = quad[t] + Estimate(fn, interval[t])]
            /\ processed' = [processed EXCEPT ![t] = TRUE]
            /\ Goto(t, "dec")
       ELSE /\ Goto(t, "lock2")
            /\ UNCHANGED <<quad, processed>>
    /\ UNCHANGED <<inputs, held, queues, active_threads, interval, work, done, attempt, tasks, cur,
                   aborted, result, returned, pushed, popped>>

\* line 218: omp_set_lock(&local_queue->lock)
C_SetLock2(t) ==
    /\ Running /\ strategy = "C" /\ pc[t] = "lock2"
    /\ queues[local_queue(t)].lock = NoThread
    /\ queues' = [queues EXCEPT ![local_queue(t)].lock = t]
    /\ Goto(t, "enq1")
    /\ UNCHANGED <<inputs, held, processed, active_threads, interval, work, done, attempt, quad, tasks, cur,
                   aborted, result, returned, pushed, popped>>

\* variant: the first half goes to queues[0], where main put the whole interval
C_Enqueue1_first(t) ==
    /\ Running /\ strategy = "C" /\ pc[t] = "enq1"
    /\ EnqueueCall(t, i1(fn, interval[t]), 0, "enq2")
    /\ UNCHANGED <<inputs, held, processed, active_threads, interval, work, done, attempt, quad, tasks, cur,
                   result, returned, popped>>

\* line 220: enqueue(i1, local_queue)
C_Enqueue1(t) ==
    /\ Running /\ strategy = "C" /\ pc[t] = "enq1"
    /\ EnqueueCall(t, i1(fn, interval[t]), local_queue(t), "enq2")
    /\ UNCHANGED <<inputs, held, processed, active_threads, interval, work, done, attempt, quad, tasks, cur,
                   result, returned, popped>>

\* variant: the second half is handed to the queue of the next thread
C_Enqueue2_next(t) ==
    /\ Running /\ strategy = "C" /\ pc[t] = "enq2"
    /\ EnqueueCall(t, i2(fn, interval[t]), (t + 1) % queues_size, "unlock2")
    /\ processed' = [processed EXCEPT ![t] = ~EnqueueFull(queues[(t + 1) % queues_size])]
    /\ UNCHANGED <<inputs, held, active_threads, interval, work, done, attempt, quad, tasks, cur,
                   result, returned, popped>>

\* line 221: enqueue(i2, local_queue)
C_Enqueue2(t) ==
    /\ Running /\ strategy = "C" /\ pc[t] = "enq2"
    /\ EnqueueCall(t, i2(fn, interval[t]), local_queue(t), "unlock2")
    /\ processed' = [processed EXCEPT ![t] = ~EnqueueFull(queues[local_queue(t)])]
    /\ UNCHANGED <<inputs, held, active_threads, interval, work, done, attempt, quad, tasks, cur,
                   result, returned, popped>>

\* line 223: omp_unset_lock(&local_queue->lock)
C_UnsetLock2(t) ==
    /\ Running /\ strategy = "C" /\ pc[t] = "unlock2"
    /\ queues' = [queues EXCEPT ![local_queue(t)].lock = NoThread]
    /\ Goto(t, "dec")
    /\ UNCHANGED <<inputs, held, processed, active_threads, interval, work, done, attempt, quad, tasks, cur,
                   aborted, result, returned, pushed, popped>>

\* variant: the loop is left after the decrement when no thread is active
C_Decrement_exit(t) ==
    /\ Running /\ strategy = "C" /\ pc[t] = "dec"
    /\ active_threads' = active_threads - 1
    /\ held' = [held EXCEPT ![t] = held[t] - 1]
    /\ processed' = [processed EXCEPT ![t] = FALSE]
    /\ IF active_threads - 1 = 0
       THEN Goto(t, "exited") /\ UNCHANGED <<work, done, interval>>
       ELSE C_LoopTop(t)
    /\ UNCHANGED <<inputs, queues, attempt, quad, tasks, cur, aborted, result, returned,
                   pushed, popped>>

\* lines 228-229: #pragma omp atomic  active_threads-- ; then the next iteration
C_Decrement(t) ==
    /\ Running /\ strategy = "C" /\ pc[t] = "dec"
    /\ active_threads' = active_threads - 1
    /\ held' = [held EXCEPT ![t] = held[t] - 1]
    /\ processed' = [processed EXCEPT ![t] = FALSE]
    /\ C_LoopTop(t)
    /\ UNCHANGED <<inputs, queues, attempt, quad, tasks, cur, aborted, result, returned,
                   pushed, popped>>


(* ---------------- end of the parallel region (B and C) ----------------- *)

RECURSIVE SumTo(_, _)
SumTo(f, n) == IF n < 0 THEN 0 ELSE f[n] + SumTo(f, n - 1)

\* variant: only the copy of thread 0 is returned
Reduction_first == quad[0]

\* reduction(+: quad): the private copies are added when the region ends
Reduction == SumTo(quad, queues_size - 1)

\* end of the parallel region and return quad: every thread has left its loop
Return ==
    /\ Running /\ strategy \in {"B", "C"}
    /\ \A t \in Threads : pc[t] = "exited"
    /\ result' = Reduction
    /\ returned' = TRUE
    /\ UNCHANGED <<inputs, held, processed, queues, active_threads, pc, interval, work, done, attempt, quad,
                   tasks, cur, aborted, pushed, popped>>

(* --------------------- Strategy A: solver1.c --------------------------- *)

\* the call that spawned task k, and the variable its task body assigns
Parent(k) == k \div 2

\* quad1 = simpson(func, i1) / quad2 = simpson(func, i2) / main: quad = simpson(func1, whole)
A_Return(k, v) ==
    IF k = 1
    THEN /\ tasks' = [tasks EXCEPT ![k].state = "done"]
         /\ result' = v
         /\ returned' = TRUE
    ELSE /\ tasks' = IF k % 2 = 0
                     THEN [tasks EXCEPT ![k].state = "done", ![Parent(k)].quad1 = v]
                     ELSE [tasks EXCEPT ![k].state = "done", ![Parent(k)].quad2 = v]
         /\ UNCHANGED <<result, returned>>

\* a thread of the team takes up a call: the single construct for the root,
\* a task scheduling point for a spawned task
A_Start(t, k) ==
    /\ Running /\ strategy = "A" /\ pc[t] = "idle"
    /\ tasks[k].state = "ready"
    /\ tasks' = [tasks EXCEPT ![k].state = "running"]
    /\ cur' = [cur EXCEPT ![t] = k]
    /\ Goto(t, "eval")
    /\ UNCHANGED <<inputs, held, processed, queues, active_threads, interval, work, done, attempt, quad,
                   aborted, result, returned, pushed, popped>>

\* lines 23-66: evaluate; return the estimate, or spawn one task per half
A_Evaluate(t) ==
    /\ Running /\ strategy = "A" /\ pc[t] = "eval"
    /\ LET k == cur[t]
           iv == tasks[k].interval
       IN IF ToleranceMet(fn, iv)
          THEN A_Return(k, Estimate(fn, iv))
          ELSE /\ tasks' = [tasks EXCEPT
                              ![k].state = "taskwait",
                              ![2 * k] = [NoCall EXCEPT !.state = "ready", !.interval = i1(fn, iv)],
                              ![2 * k + 1] = [NoCall EXCEPT !.state = "ready", !.interval = i2(fn, iv)]]
               /\ UNCHANGED <<result, returned>>
    /\ cur' = [cur EXCEPT ![t] = NoTask]
    /\ Goto(t, "idle")
    /\ UNCHANGED <<inputs, held, processed, queues, active_threads, interval, work, done, attempt, quad,
                   aborted, pushed, popped>>

\* variant: the call goes on as soon as its first child task has completed
TaskwaitPassed_first(k) == tasks[2 * k].state = "done"

\* line 70: #pragma omp taskwait is passed when both child tasks have completed
TaskwaitPassed(k) == tasks[2 * k].state = "done" /\ tasks[2 * k + 1].state = "done"

\* lines 70-71: taskwait; return quad1 + quad2
A_Taskwait(t, k) ==
    /\ Running /\ strategy = "A" /\ pc[t] = "idle"
    /\ tasks[k].state = "taskwait"
    /\ TaskwaitPassed(k)
    /\ A_Return(k, tasks[k].quad1 + tasks[k].quad2)
    /\ UNCHANGED <<inputs, held, processed, queues, active_threads, pc, interval, work, done, attempt, quad,
                   cur, aborted, pushed, popped>>

(* ------------------------------- Next ---------------------------------- *)

Next ==
    \/ \E t \in Threads : B_SetLock(t)
    \/ \E t \in Threads : B_IsEmpty(t)
    \/ \E t \in Threads : B_Dequeue(t)
    \/ \E t \in Threads : B_Increment(t)
    \/ \E t \in Threads : B_DoneEmpty(t)
    \/ \E t \in Threads : B_DoneActive(t)
    \/ \E t \in Threads : B_UnsetLock(t)
    \/ \E t \in Threads : B_Evaluate(t)
    \/ \E t \in Threads : B_SetLock2(t)
    \/ \E t \in Threads : B_Enqueue1(t)
    \/ \E t \in Threads : B_Enqueue2(t)
    \/ \E t \in Threads : B_UnsetLock2(t)
    \/ \E t \in Threads : B_Decrement(t)
    \/ \E t \in Threads : C_SetLock(t)
    \/ \E t \in Threads : C_IsEmpty(t)
    \/ \E t \in Threads : C_Dequeue(t)
    \/ \E t \in Threads : C_Increment(t)
    \/ \E t \in Threads : C_UnsetLock(t)
    \/ \E t \in Threads : C_TestLock(t)
    \/ \E t \in Threads : C_StealIsEmpty(t)
    \/ \E t \in Threads : C_StealDequeue(t)
    \/ \E t \in Threads : C_StealIncrement(t)
    \/ \E t \in Threads : C_StealUnsetLock(t)
    \/ \E t \in Threads : C_TerminateEmpty(t)
    \/ \E t \in Threads : C_TerminateActive(t)
    \/ \E t \in Threads : C_Evaluate(t)
    \/ \E t \in Threads : C_SetLock2(t)
    \/ \E t \in Threads : C_Enqueue1(t)
    \/ \E t \in Threads : C_Enqueue2(t)
    \/ \E t \in Threads : C_UnsetLock2(t)
    \/ \E t \in Threads : C_Decrement(t)
    \/ \E t \in Threads, k \in TaskIds : A_Start(t, k)
    \/ \E t \in Threads : A_Evaluate(t)
    \/ \E t \in Threads, k \in TaskIds : A_Taskwait(t, k)
    \/ Return

Spec == Init /\ [][Next]_vars

(* ----------------------------- fairness -------------------------------- *)

\* the steps of thread t that wait for nothing
NonBlocking(t) ==
    \/ B_IsEmpty(t) \/ B_Dequeue(t) \/ B_Increment(t) \/ B_DoneEmpty(t) \/ B_DoneActive(t)
    \/ B_UnsetLock(t)
    \/ B_Evaluate(t) \/ B_Enqueue1(t) \/ B_Enqueue2(t) \/ B_UnsetLock2(t)
    \/ B_Decrement(t)
    \/ C_IsEmpty(t) \/ C_Dequeue(t) \/ C_Increment(t) \/ C_UnsetLock(t) \/ C_TestLock(t)
    \/ C_StealIsEmpty(t) \/ C_StealDequeue(t) \/ C_StealIncrement(t) \/ C_StealUnsetLock(t)
    \/ C_TerminateEmpty(t) \/ C_TerminateActive(t) \/ C_Evaluate(t)
    \/ C_Enqueue1(t) \/ C_Enqueue2(t) \/ C_UnsetLock2(t) \/ C_Decrement(t)
    \/ A_Evaluate(t)
    \/ \E k \in TaskIds : A_Start(t, k) \/ A_Taskwait(t, k)

\* omp_set_lock: the steps of thread t that wait for a lock
Blocking(t) == B_SetLock(t) \/ B_SetLock2(t) \/ C_SetLock(t) \/ C_SetLock2(t)

\* every thread keeps running; a thread waiting in omp_set_lock gets the lock
\* if the lock is free again and again
Fairness ==
    /\ \A t \in 0 .. (MaxThreads - 1) :
          /\ WF_vars(t \in Threads /\ NonBlocking(t))
          /\ SF_vars(t \in Threads /\ Blocking(t))
    /\ WF_vars(Return)

FairInit == Start(FairTols)

FairSpec == FairInit /\ [][Next]_vars /\ Fairness

(* ------------------- the steal scan with more threads ------------------ *)

\* a tolerance that accepts the whole interval at once
ScanTols == {100000}

\* solver2_separate with up to ScanThreads threads on an input whose whole
\* interval is accepted at once: one interval, in queues[0], for all threads
ScanInit == Begin({"C"}, ScanThreads, ScanTols)

\* the steps of solver2_separate on such an input: nothing is split, so the
\* critical section of lines 218-223 is never entered
ScanNext ==
    \/ \E t \in Threads : C_SetLock(t)
    \/ \E t \in Threads : C_IsEmpty(t)
    \/ \E t \in Threads : C_Dequeue(t)
    \/ \E t \in Threads : C_Increment(t)
    \/ \E t \in Threads : C_UnsetLock(t)
    \/ \E t \in Threads : C_TestLock(t)
    \/ \E t \in Threads : C_StealIsEmpty(t)
    \/ \E t \in Threads : C_StealDequeue(t)
    \/ \E t \in Threads : C_StealIncrement(t)
    \/ \E t \in Threads : C_StealUnsetLock(t)
    \/ \E t \in Threads : C_TerminateEmpty(t)
    \/ \E t \in Threads : C_TerminateActive(t)
    \/ \E t \in Threads : C_Evaluate(t)
    \/ \E t \in Threads : C_Decrement(t)
    \/ Return

ScanSpec == ScanInit /\ [][ScanNext]_vars

(* ------------------------------ claims --------------------------------- *)

\* the queue thread t pops from and pushes to
OwnQueue(t) == IF strategy = "B" THEN Shared ELSE local_queue(t)

\* thread u holds an interval it dequeued and has neither added it to quad nor
\* enqueued both of its halves
Unprocessed(u) == work[u] /\ ~processed[u]

AllExited == \A t \in Threads : pc[t] = "exited"

\* C1: Strategy B: once a thread has left its loop, the shared queue is empty,
\* active_threads is 0 and no thread holds an interval that is not fully
\* processed.
C1_ExitOnlyWhenDrained ==
    strategy = "B" =>
        \A t \in Threads :
            pc[t] = "exited" =>
                /\ isempty(queues[Shared])
                /\ active_threads = 0
                /\ \A u \in Threads : ~Unprocessed(u)

\* a thread has left the loop of B while the other is still in it, after splits
C1_Witness ==
    /\ strategy = "B" /\ queues_size = 2
    /\ pc[0] = "exited" /\ pc[1] # "exited"
    /\ BagCardinality(popped) >= 3

\* C2: Strategy C: when every thread has left its loop, every queue is empty
\* and every interval ever enqueued has been dequeued.
C2_NothingLeftBehind ==
    (strategy = "C" /\ AllExited) =>
        /\ \A qi \in DOMAIN queues : isempty(queues[qi])
        /\ popped = pushed

\* all threads of C have left, and thread 1 accumulated intervals it got from
\* queue 0
C2_Witness ==
    /\ strategy = "C" /\ queues_size >= 2 /\ AllExited
    /\ quad[1] # 0 /\ BagCardinality(pushed) >= 3

\* C3: under fair scheduling every run ends: simpson returns to main (in B and
\* C after every thread has left its loop), unless an enqueue found its queue
\* full and ended the process.
C3_Termination ==
    <>(aborted # "no" \/ (returned /\ (strategy \in {"B", "C"} => AllExited)))

\* a run of C with two threads has returned after both threads accumulated
C3_Witness ==
    /\ returned /\ strategy = "C" /\ queues_size = 2
    /\ quad[0] # 0 /\ quad[1] # 0

\* the sum of the estimates of the leaves of the split tree below iv
RECURSIVE TreeSum(_, _)
TreeSum(f, iv) ==
    IF ToleranceMet(f, iv) THEN Estimate(f, iv)
    ELSE TreeSum(f, i1(f, iv)) + TreeSum(f, i2(f, iv))

\* C4: whatever the strategy, the thread count and the interleaving, the value
\* simpson returns is the sum of the estimates of the leaves of the split tree
\* of the whole interval.
C4_SameResult == returned => result = TreeSum(fn, whole(fn, tol))

\* a run of B with two threads has returned a sum made of both private copies
C4_Witness ==
    /\ returned /\ strategy = "B" /\ queues_size = 2
    /\ quad[0] # 0 /\ quad[1] # 0 /\ result = quad[0] + quad[1]

\* C5: Strategies B and C: no interval is dequeued twice, only enqueued
\* intervals are dequeued, two threads never hold the same interval, and when
\* simpson returns every enqueued interval has been dequeued.
C5_ConsumedOnce ==
    strategy \in {"B", "C"} =>
        /\ \A iv \in BagToSet(popped) : CopiesIn(iv, popped) = 1 /\ CopiesIn(iv, pushed) = 1
        /\ \A t, u \in Threads : (t # u /\ work[t] /\ work[u]) => interval[t] # interval[u]
        /\ returned => popped = pushed

\* two threads hold an interval each, one of them stolen
C5_Witness ==
    /\ strategy = "C" /\ queues_size = 2
    /\ work[0] /\ work[1] /\ pc[0] = "eval" /\ pc[1] = "eval"

\* C6: Strategies B and C: active_threads is never negative.
C6_BusyNonNegative == strategy \in {"B", "C"} => active_threads >= 0

\* a decrement brought the counter back to 0 while the queue still holds work
C6_Witness ==
    /\ strategy = "B" /\ active_threads = 0
    /\ BagCardinality(popped) >= 1 /\ ~isempty(queues[Shared])

\* what a step may do to the counter and to a thread's outstanding increments
C7_Step ==
    strategy \in {"B", "C"} =>
        \A t \in Threads :
            /\ held'[t] > held[t] =>
                  held[t] = 0 /\ work[t] /\ ~processed[t] /\ active_threads' = active_threads + 1
            /\ held'[t] < held[t] =>
                  held[t] = 1 /\ processed[t] /\ active_threads' = active_threads - 1
            /\ active_threads' # active_threads => held' # held

\* C7: Strategies B and C: a thread increments active_threads only for an
\* interval it has just dequeued and while it has no increment outstanding; it
\* decrements only when it has one increment outstanding and the interval was
\* added to quad or both halves were enqueued; and it starts the next iteration
\* or leaves the loop with no increment outstanding.
C7_Bracket ==
    /\ [](strategy \in {"B", "C"} =>
            \A t \in Threads :
                /\ held[t] \in {0, 1}
                /\ pc[t] \in {"lock", "exited"} => held[t] = 0)
    /\ [][C7_Step]_vars

\* thread 1 of C stole the whole interval, enqueued both halves on its own
\* queue and decremented
C7_Witness ==
    /\ strategy = "C" /\ queues_size = 2
    /\ pc[1] = "lock" /\ held[1] = 0 /\ queues[1].top = 1 /\ active_threads = 0

\* C8: the top of every queue stays within -1 .. MAXQUEUE-1.
C8_TopInBounds ==
    \A qi \in DOMAIN queues : -1 <= queues[qi].top /\ queues[qi].top <= MAXQUEUE - 1

\* one queue of C is empty while another is full
C8_Witness ==
    /\ strategy = "C" /\ queues_size = 2
    /\ queues[0].top = -1 /\ queues[1].top = MAXQUEUE - 1

\* C9: dequeue never finds its queue empty: a thread about to call dequeue
\* holds the lock of that queue and the queue is not empty, for its own queue
\* and for a victim's queue.
C9_NoEmptyPop ==
    /\ aborted # "empty"
    /\ \A t \in Threads :
          /\ pc[t] = "deq" =>
                queues[OwnQueue(t)].lock = t /\ ~isempty(queues[OwnQueue(t)])
          /\ pc[t] = "sdeq" =>
                queues[other_queue(t)].lock = t /\ ~isempty(queues[other_queue(t)])

\* a thread of C has just dequeued from a victim's queue
C9_Witness ==
    strategy = "C" /\ \E t \in Threads : pc[t] = "sinc" /\ work[t] /\ interval[t] # Unset

\* what a step may do at a call of enqueue
C10_Step ==
    /\ \A t \in Threads :
          (pc[t] \in {"enq1", "enq2"} /\ pc'[t] # pc[t]) =>
              LET qi == OwnQueue(t)
                  q == queues[qi]
                  iv == IF pc[t] = "enq1" THEN i1(fn, interval[t]) ELSE i2(fn, interval[t])
              IN /\ q.top # MAXQUEUE - 1
                 /\ aborted' = "no"
                 /\ queues'[qi].top = q.top + 1
                 /\ queues'[qi].entry[q.top + 1] = iv
                 /\ \A sl \in Slots : sl # q.top + 1 => queues'[qi].entry[sl] = q.entry[sl]
    /\ (aborted = "no" /\ aborted' = "full") =>
          /\ queues' = queues
          /\ \E t \in Threads :
                pc[t] \in {"enq1", "enq2"} /\ queues[OwnQueue(t)].top = MAXQUEUE - 1
    /\ \A t \in Threads :
          (pc[t] \in {"enq1", "enq2"} /\ queues[OwnQueue(t)].top = MAXQUEUE - 1) =>
              pc'[t] = pc[t]

\* C10: a thread completes an enqueue only on a queue that is not full, and
\* then top grows by one, the new top slot holds the interval, the other
\* slots are unchanged and the process goes on; the process ends with "queue
\* size exceeded" only by an enqueue on a full queue, with every queue unchanged.
C10_Push == [][C10_Step]_vars

\* the process ended on an enqueue into a full queue
C10_Witness ==
    aborted = "full" /\ \E qi \in DOMAIN queues : queues[qi].top = MAXQUEUE - 1

\* the next step of thread t calls isempty, dequeue or enqueue on queue qi
\* (solver2_shared.c lines 111, 112, 120, 169, 170; solver2_separate.c lines
\* 120, 121, 147, 148, 168, 220, 221)
ProbesQueue(t, qi) ==
    \/ strategy = "B" /\ qi = Shared /\ pc[t] \in {"check", "deq", "done", "enq1", "enq2"}
    \/ strategy = "C" /\ qi = local_queue(t) /\ pc[t] \in {"check", "deq", "term", "enq1", "enq2"}
    \/ strategy = "C" /\ qi = other_queue(t) /\ pc[t] \in {"scheck", "sdeq"}

\* C11: Strategies B and C: while the threads run, a thread that is about to
\* call isempty, dequeue or enqueue on a queue holds the lock of that queue.
C11_LockDiscipline ==
    (Running /\ strategy \in {"B", "C"}) =>
        \A t \in Threads : \A qi \in DOMAIN queues :
            ProbesQueue(t, qi) => queues[qi].lock = t

\* thread t of B is inside the critical section of lines 109-122
InSection(t) == pc[t] \in {"check", "deq", "inc", "done", "done2", "unlock"}

\* what a step may do while a thread is inside the critical section
C12_Step ==
    strategy = "B" =>
        \A t \in Threads :
            /\ (InSection(t) /\ queues'[Shared] # queues[Shared]) =>
                  \/ pc[t] = "deq" /\ pc'[t] = "inc"
                  \/ pc[t] = "unlock" /\ pc'[t] # "unlock"
            /\ pc[t] = "done2" =>
                  /\ queues'[Shared].top = queues[Shared].top
                  /\ queues'[Shared].entry = queues[Shared].entry
                  /\ pc'[t] = "unlock" => done'[t] = (isempty(queues[Shared]) /\ active_threads = 0)

\* C12: Strategy B: from the test of line 111 to the unlock of line 122 the
\* thread holds the lock of the queue, the queue changes only by the thread's
\* own dequeue, and done is computed from the emptiness and the counter of
\* one and the same state of the queue: no enqueue or dequeue falls between
\* the read of isempty and the read of active_threads.
C12_DecisionInSection ==
    /\ [](strategy = "B" =>
            \A t \in Threads :
                /\ InSection(t) => queues[Shared].lock = t
                /\ pc[t] = "done2" => done[t] = isempty(queues[Shared]))
    /\ [][C12_Step]_vars

\* a thread is between the two reads of line 120 while another thread waits
\* at line 168 to enqueue two halves
C12_Witness ==
    /\ strategy = "B" /\ queues_size = 2
    /\ pc[0] = "done2" /\ pc[1] = "lock2"

\* C13: Strategy C: a thread that has left its loop has an empty queue of its
\* own, whatever the other threads dequeued from it.
C13_OwnQueueEmptyAtExit ==
    strategy = "C" =>
        \A t \in Threads : pc[t] = "exited" => isempty(queues[local_queue(t)])

\* thread 0 has left its loop after thread 1 took an interval from queue 0,
\* and thread 1 is still in its loop
C13_Witness ==
    /\ strategy = "C" /\ queues_size = 2
    /\ pc[0] = "exited" /\ pc[1] # "exited"
    /\ quad[1] # 0 /\ BagCardinality(pushed) >= 3

\* call k of solver1 has split: it spawned its two child tasks
HasSplit(k) == (2 * k + 1) \in TaskIds /\ tasks[2 * k].state # "none"

\* C14: Strategy A: a call that split has returned only if both of its child
\* tasks have completed and quad1 and quad2 hold what they returned; when the
\* root call has returned to main no call is left ready, running or waiting.
C14_ForkJoin ==
    strategy = "A" =>
        /\ \A k \in TaskIds :
              (tasks[k].state = "done" /\ HasSplit(k)) =>
                  /\ tasks[2 * k].state = "done"
                  /\ tasks[2 * k + 1].state = "done"
                  /\ tasks[k].quad1 = TreeSum(fn, tasks[2 * k].interval)
                  /\ tasks[k].quad2 = TreeSum(fn, tasks[2 * k + 1].interval)
        /\ returned => \A k \in TaskIds : tasks[k].state \in {"none", "done"}

\* the root call has returned after a split of the whole interval and a split
\* of one of its halves, run by two threads
C14_Witness ==
    /\ strategy = "A" /\ queues_size = 2 /\ returned
    /\ HasSplit(1) /\ (HasSplit(2) \/ HasSplit(3))

\* what holds at a step by which a thread of C leaves its loop
C15_Step ==
    strategy = "C" =>
        \A t \in Threads :
            (pc[t] # "exited" /\ pc'[t] = "exited") =>
                /\ \A qi \in DOMAIN queues : isempty(queues[qi])
                /\ \A u \in Threads : ~Unprocessed(u)

\* C15: Strategy C: a thread leaves its loop only in a state where every
\* queue is empty and no thread holds a dequeued interval that it has not
\* fully processed.
C15_ExitOnlyWhenAllDrained == [][C15_Step]_vars

\* thread t has dequeued an interval and not yet incremented active_threads
\* (solver2_shared.c lines 112-118, solver2_separate.c lines 121-127, 148-154)
BeforeIncrement(t) == pc[t] \in {"inc", "sinc"}

\* thread t has added its interval to quad or enqueued both halves and not
\* yet decremented active_threads (solver2_shared.c lines 147-177,
\* solver2_separate.c lines 192-229)
BeforeDecrement(t) == work[t] /\ processed[t]

\* C16 as stated: in every state of B and C active_threads is the number of
\* threads that hold a dequeued interval not yet fully processed, also between
\* the dequeue and the increment and between the processing and the decrement.
C16_BusyCounterExact ==
    strategy \in {"B", "C"} =>
        active_threads = Cardinality({t \in Threads : Unprocessed(t)})

\* C16 (amended): in every state of B and C active_threads is the number of
\* threads that hold a dequeued interval not yet fully processed, less the
\* threads between their dequeue and their increment, plus the threads
\* between the end of their processing and their decrement.
C16_BusyCounterLags ==
    strategy \in {"B", "C"} =>
        active_threads =
            Cardinality({t \in Threads : Unprocessed(t) /\ ~BeforeIncrement(t)})
              + Cardinality({t \in Threads : BeforeDecrement(t)})

\* one thread of C evaluates an interval while another has just dequeued a
\* second one from a victim and not yet counted it
C16_Witness ==
    /\ strategy = "C" /\ active_threads = 1
    /\ \E t, u \in Threads : pc[t] = "sinc" /\ pc[u] = "eval"

\* the queue that is j-th in the round of thread t: thread_id + j modulo
\* queues_size
Round(t, j) == (t + j) % queues_size

\* what a step of a steal scan may do
C17_Step ==
    strategy = "C" =>
        \A t \in Threads :
            \* the scan starts at the first queue of the round
            /\ (pc[t] # "steal" /\ pc'[t] = "steal" /\ pc[t] = "unlock") => attempt'[t] = 1
            \* a call of omp_test_lock is on the next queue of the round:
            \* it takes that lock, or finds it held and goes on or ends the scan
            /\ (pc[t] = "steal" /\ <<pc[t], attempt[t]>> # <<pc'[t], attempt'[t]>>) =>
                  /\ attempt[t] \in 1 .. (queues_size - 1)
                  /\ Round(t, attempt[t]) # t
                  /\ \/ /\ queues[Round(t, attempt[t])].lock = NoThread
                        /\ queues' = [queues EXCEPT ![Round(t, attempt[t])].lock = t]
                        /\ pc'[t] = "scheck" /\ attempt'[t] = attempt[t]
                     \/ /\ queues[Round(t, attempt[t])].lock # NoThread
                        /\ queues' = queues
                        /\ IF attempt[t] < queues_size - 1
                           THEN pc'[t] = "steal" /\ attempt'[t] = attempt[t] + 1
                           ELSE pc'[t] = "term"
            \* a dequeue of the scan is from the queue whose lock was taken
            /\ (pc[t] = "sdeq" /\ pc'[t] # "sdeq") =>
                  /\ queues'[Round(t, attempt[t])].top = queues[Round(t, attempt[t])].top - 1
                  /\ \A qi \in DOMAIN queues : qi # Round(t, attempt[t]) => queues'[qi] = queues[qi]
            \* after the unlock the scan ends if an interval was dequeued, and
            \* else goes on with the next queue of the round or ends
            /\ (pc[t] = "sunlock" /\ pc'[t] # "sunlock") =>
                  IF work[t] \/ attempt[t] = queues_size - 1
                  THEN pc'[t] = "term"
                  ELSE pc'[t] = "steal" /\ attempt'[t] = attempt[t] + 1

\* C17: Strategy C: a thread scans only after it found its own queue empty;
\* in one scan it calls omp_test_lock on the queues thread_id + 1,
\* thread_id + 2, ... modulo queues_size, in this order, never on its own queue
\* and on no queue twice; it ends the scan at the first queue it dequeues
\* from, so that a scan dequeues at most one interval.
C17_ScanOrder ==
    /\ [](strategy = "C" =>
            \A t \in Threads :
                /\ pc[t] \in {"steal", "scheck", "sdeq"} =>
                      ~work[t] /\ interval[t] = Unset /\ held[t] = 0
                /\ pc[t] \in {"steal", "scheck", "sdeq", "sinc", "sunlock"} =>
                      attempt[t] \in 1 .. (queues_size - 1))
    /\ [][C17_Step]_vars

\* thread 1 of three found queue 2 locked or empty, wrapped round to queue 0
\* and dequeued the whole interval from it
C17_Witness ==
    /\ strategy = "C" /\ queues_size = 3
    /\ attempt[1] = 2 /\ pc[1] = "sinc" /\ work[1] /\ queues[0].lock = 1

\* thread t of C waits in omp_set_lock (line 118 or 218) for the lock of its
\* queue
Blocked(t) ==
    /\ pc[t] \in {"lock", "lock2"}
    /\ queues[local_queue(t)].lock # NoThread

\* C18: Strategy C: a thread that waits for a lock waits for a thread that is
\* itself not waiting, so no set of threads wait for each other; and while
\* the region runs some thread that has not left its loop can take a step.
C18_NoDeadlock ==
    strategy = "C" =>
        /\ \A t \in Threads :
              Blocked(t) =>
                  /\ queues[local_queue(t)].lock \in Threads \ {t}
                  /\ ~Blocked(queues[local_queue(t)].lock)
        /\ (Running /\ ~AllExited) =>
              \E t \in Threads : pc[t] # "exited" /\ ~Blocked(t)

\* two threads steal from each other at the same time: each holds the lock of
\* the other's queue
C18_Witness ==
    /\ strategy = "C" /\ queues_size = 2
    /\ queues[0].lock = 1 /\ queues[1].lock = 0

\* the queues whose lock thread t holds
LocksHeld(t) == {qi \in DOMAIN queues : queues[qi].lock = t}

\* C19: Strategy C: a thread holds the lock of a victim's queue only from a
\* successful omp_test_lock to the omp_unset_lock of line 156: it holds no
\* lock when it calls omp_test_lock on the next queue or ends the scan, be it
\* after a dequeue or after finding the victim's queue empty; a thread never
\* holds two locks, and holds none while it evaluates an interval.
C19_OneLockAtATime ==
    strategy = "C" =>
        \A t \in Threads :
            /\ Cardinality(LocksHeld(t)) <= 1
            /\ pc[t] \in {"scheck", "sdeq", "sinc", "sunlock"} => LocksHeld(t) = {other_queue(t)}
            /\ pc[t] \in {"check", "deq", "inc", "unlock", "enq1", "enq2", "unlock2"} =>
                  LocksHeld(t) = {local_queue(t)}
            /\ pc[t] \in {"lock", "steal", "term", "term2", "eval", "lock2", "dec", "exited"} =>
                  LocksHeld(t) = {}

\* thread 1 of three is done with queue 2 and about to call omp_test_lock on
\* queue 0, holding no lock, while thread 0 holds the lock of queue 0
C19_Witness ==
    /\ strategy = "C" /\ queues_size = 3
    /\ pc[1] = "steal" /\ attempt[1] = 2 /\ LocksHeld(1) = {}
    /\ queues[0].lock = 0 /\ queues[2].lock = NoThread

\* what a step of C that enqueues may change
C20_Step ==
    strategy = "C" =>
        /\ \A t \in Threads :
              (pc[t] \in {"enq1", "enq2"} /\ pc'[t] # pc[t]) =>
                  LET iv == IF pc[t] = "enq1" THEN i1(fn, interval[t]) ELSE i2(fn, interval[t])
                  IN /\ \A qi \in DOMAIN queues : qi # local_queue(t) => queues'[qi] = queues[qi]
                     /\ queues'[local_queue(t)].top = queues[local_queue(t)].top + 1
                     /\ queues'[local_queue(t)].entry[queues'[local_queue(t)].top] = iv
                     /\ pushed' = pushed (+) SetToBag({iv})
        /\ pushed' # pushed =>
              \E t \in Threads : pc[t] \in {"enq1", "enq2"} /\ pc'[t] # pc[t]
        /\ \A qi \in DOMAIN queues :
              queues'[qi].top > queues[qi].top => pc[qi] \in {"enq1", "enq2"} /\ pc'[qi] # pc[qi]

\* C20: Strategy C: both halves of a split go onto the queue of the thread
\* that split, whichever queue the split interval came from; every enqueue is
\* made by the owner of the queue, and leaves all other queues unchanged.
C20_PushLocal == [][C20_Step]_vars

\* thread 1 took the whole interval from queue 0, split it and put both
\* halves on queue 1
C20_Witness ==
    /\ strategy = "C" /\ queues_size = 2
    /\ pc[1] = "unlock2" /\ BagCardinality(popped) = 1
    /\ queues[0].top = -1
    /\ queues[1].top = 1
    /\ queues[1].entry[0] = i1(fn, interval[1]) /\ queues[1].entry[1] = i2(fn, interval[1])

\* the cached values of iv are the integrand at its left bound, midpoint and
\* right bound
Cached(iv) ==
    /\ iv.f_left = func(fn, iv.left)
    /\ 2 * c(iv) = iv.left + iv.right
    /\ iv.f_mid = func(fn, c(iv))
    /\ iv.f_right = func(fn, iv.right)

\* a and b are the halves of p: they meet at the midpoint of p, keep its tol,
\* and take their cached values from p and from the two quarter point values
\* the accept test of p used
Lossless(p, a, b) ==
    /\ a.left = p.left /\ a.right = c(p)
    /\ b.left = c(p) /\ b.right = p.right
    /\ 2 * c(p) = p.left + p.right
    /\ a.tol = p.tol /\ b.tol = p.tol
    /\ a.f_left = p.f_left /\ a.f_mid = fd(fn, p) /\ a.f_right = p.f_mid
    /\ b.f_left = p.f_mid /\ b.f_mid = fe(fn, p) /\ b.f_right = p.f_right
    /\ Cached(a) /\ Cached(b)

\* C21: in all three programs the halves of a split interval meet at its
\* midpoint, keep its tol, and cache as f_left, f_mid and f_right the values
\* the parent held or computed at exactly their left bound, midpoint and right
\* bound: for the child tasks of solver1, and for the two entries a thread of
\* solver2 has put on its queue.
C21_SplitLossless ==
    /\ strategy = "A" =>
          \A k \in TaskIds :
              HasSplit(k) =>
                  Lossless(tasks[k].interval, tasks[2 * k].interval, tasks[2 * k + 1].interval)
    /\ strategy \in {"B", "C"} =>
          /\ \A t \in Threads :
                pc[t] = "unlock2" =>
                    LET q == queues[OwnQueue(t)]
                    IN /\ q.top >= 1
                       /\ Lossless(interval[t], q.entry[q.top - 1], q.entry[q.top])
          /\ \A qi \in DOMAIN queues : \A sl \in Slots :
                sl <= queues[qi].top => Cached(queues[qi].entry[sl])

\* a thread of solver2_separate has split a half of the whole interval and
\* put the two quarters on its queue
C21_Witness ==
    /\ strategy = "C"
    /\ \E t \in Threads :
          /\ pc[t] = "unlock2"
          /\ interval[t] # whole(fn, tol)
          /\ queues[t].entry[queues[t].top] = i2(fn, interval[t])

\* thread t is about to evaluate the termination condition (solver2_shared.c
\* line 120, solver2_separate.c line 168)
AtTermination(t) == pc[t] \in {"done", "done2", "term", "term2"}

C22_Step ==
    strategy \in {"B", "C"} =>
        \A t \in Threads :
            /\ (pc[t] # "exited" /\ pc'[t] = "exited") => ~work[t]
            /\ (AtTermination(t) /\ work[t] /\ pc'[t] # pc[t]) =>
                  /\ active_threads >= 1
                  /\ pc'[t] \in {"done2", "term2", "unlock", "eval"}
                  /\ pc'[t] \in {"unlock", "eval"} => ~done'[t]

\* C22: in B and C no thread leaves its loop with a dequeued interval: when a
\* thread that obtained an interval in this iteration evaluates the
\* termination condition, active_threads is at least 1 and the condition is
\* false, so the thread goes on to evaluate the interval.
C22_NoExitWithWork == [][C22_Step]_vars

\* a thread of B has dequeued the last interval of the queue and found the
\* termination condition false
C22_Witness ==
    /\ strategy = "B"
    /\ \E t \in Threads :
          /\ pc[t] = "unlock" /\ work[t] /\ ~done[t]
          /\ isempty(queues[Shared])
          /\ BagCardinality(popped) >= 2

\* thread t is between taking the lock for its two enqueues and releasing it
\* (solver2_shared.c lines 169-171, solver2_separate.c lines 220-223)
InEnqueueSection(t) == pc[t] \in {"enq1", "enq2", "unlock2"}

\* C23: in B and C a thread holds the lock of its queue from before the
\* enqueue of the first half to after the enqueue of the second; while only
\* the first half is on the queue it is the top entry, and no other thread is
\* about to call isempty or dequeue on that queue.
C23_ChildrenInOneHold ==
    strategy \in {"B", "C"} =>
        \A t \in Threads :
            /\ InEnqueueSection(t) => queues[OwnQueue(t)].lock = t
            /\ pc[t] = "enq2" =>
                  /\ ~isempty(queues[OwnQueue(t)])
                  /\ queues[OwnQueue(t)].entry[queues[OwnQueue(t)].top] = i1(fn, interval[t])
                  /\ \A u \in Threads \ {t} : ~ProbesQueue(u, OwnQueue(t))

\* a thread of B has enqueued the first half while the other thread waits for
\* the lock of the shared queue
C23_Witness ==
    /\ strategy = "B" /\ queues_size = 2
    /\ \E t \in Threads : \E u \in Threads \ {t} :
          /\ pc[t] = "enq2" /\ pc[u] = "lock"
          /\ queues[Shared].entry[queues[Shared].top] = i1(fn, interval[t])

====
